---- MODULE Spec2Model ----
(***************************************************************************)
(* Decentralization scores of a subnet (rs/decentralization/src/nakamoto): *)
(* the Nakamoto kernel, the construction of a NakamotoScore from a slice   *)
(* of NodeFeatures, the order on scores, and the subnet change search      *)
(* that is driven by that order.                                           *)
(*                                                                         *)
(* Representation of the f64 fields of NakamotoScore.  Every coefficient   *)
(* is a usize widened to f64, and a score always has one entry per         *)
(* Feature (scores.len() = 6), so                                          *)
(*   avg_linear = (sum of coefficients) / 6  is kept as that sum,          *)
(*   avg_log2   = log2(product of coefficients) / 6  is kept as that       *)
(*                product (0 stands for -infinity),                        *)
(*   min        is kept as the integer it equals.                          *)
(* Both maps are strictly increasing, so every comparison of the code is   *)
(* a comparison of these integers; `c < avg_linear` is 6 * c < sum.        *)
(***************************************************************************)
EXTENDS Integers, Sequences, FiniteSets, TLC

\* ------------------------------------------------------------------ bounds

\* Kernel inputs: every sequence of at most MaxLen counts in 0..MaxVal.
MaxLen == 4
MaxVal == 3
\* Kernel inputs: n actors of one node each, n in 1..MaxOnes.
MaxOnes == 13
\* Score inputs: slices of at most MaxNodes NodeFeatures.
MaxNodes == 3
\* The machine word of usize, scaled down from 64 bits.
UsizeBits == 5

UsizeMax == 2 ^ UsizeBits - 1

\* ------------------------------------------------------------------ Feature

\* Feature::variants(): the six axes in declaration order, which is also the
\* order of the derived Ord and so of every BTreeMap<Feature, _>.
FeatureVariants ==
    << "node_provider", "data_center", "data_center_owner",
       "city", "country", "continent" >>

Feature == { FeatureVariants[i] : i \in 1..Len(FeatureVariants) }

\* Option<String>: None is the empty tuple, Some(v) the one-element tuple.
None == << >>

Some(v) == << v >>

\* NodeFeatures::get: the feature map is a HashMap that may lack a key.
get(node_features, feature) ==
    IF feature \in DOMAIN node_features THEN Some(node_features[feature]) ELSE None

\* NodeFeatures::new_test_feature_set: every feature has the same value.
new_test_feature_set(value) == [f \in Feature |-> value]

\* NodeFeatures::with_feature_value: one feature overridden.
with_feature_value(node_features, feature, value) ==
    [f \in DOMAIN node_features \cup {feature} |->
        IF f = feature THEN value ELSE node_features[f]]

\* FromIterator for NodeFeatures over an iterator that yields no pair for
\* `feature`: the map lacks that key.
without_feature(node_features, feature) ==
    [f \in DOMAIN node_features \ {feature} |-> node_features[f]]

\* ------------------------------------------------------------------ kernel

RECURSIVE SumSeq(_)
SumSeq(s) == IF s = << >> THEN 0 ELSE Head(s) + SumSeq(Tail(s))

\* values.iter().sum() on usize: the sum modulo the word in a build without
\* overflow checks.
usize_sum(values) == SumSeq(values) % (UsizeMax + 1)

\* values.iter().sum() on usize panics in a build with overflow checks when
\* the sum leaves the word.
usize_sum_overflows(values) == SumSeq(values) > UsizeMax

\* usize::saturating_add
saturating_add(a, b) == IF a + b > UsizeMax THEN UsizeMax ELSE a + b

RECURSIVE InsertDesc(_, _)
InsertDesc(x, sorted) ==
    IF sorted = << >> THEN << x >>
    ELSE IF Head(sorted) > x
         THEN << Head(sorted) >> \o InsertDesc(x, Tail(sorted))
         ELSE << x >> \o sorted

\* A sort that forgets to move anything.
sort_desc_unsorted(values) == values

\* values.sort_by(|a, b| b.cmp(a)): stable, descending.
RECURSIVE sort_desc(_)
sort_desc(values) ==
    IF values = << >> THEN << >>
    ELSE InsertDesc(Head(values), sort_desc(Tail(values)))

\* The walk that stops on >= instead of >.
RECURSIVE walk_ge(_, _, _, _)
walk_ge(rest, sum_actors, sum_nodes, max_malicious_nodes) ==
    IF rest = << >> THEN << sum_actors, sum_nodes >>
    ELSE LET actors == sum_actors + 1
             nodes == saturating_add(sum_nodes, Head(rest))
         IN  IF nodes >= max_malicious_nodes
             THEN << actors, nodes >>
             ELSE walk_ge(Tail(rest), actors, nodes, max_malicious_nodes)

\* The for loop of nakamoto over the sorted values.
RECURSIVE walk(_, _, _, _)
walk(rest, sum_actors, sum_nodes, max_malicious_nodes) ==
    IF rest = << >> THEN << sum_actors, sum_nodes >>
    ELSE LET actors == sum_actors + 1
             nodes == saturating_add(sum_nodes, Head(rest))
         IN  IF nodes > max_malicious_nodes
             THEN << actors, nodes >>
             ELSE walk(Tail(rest), actors, nodes, max_malicious_nodes)

\* NakamotoScore::nakamoto: (sum_actors, sum_nodes).
nakamoto(values) ==
    LET total_subnet_nodes == usize_sum(values)
        max_malicious_nodes == total_subnet_nodes \div 3
    IN  walk(sort_desc(values), 0, 0, max_malicious_nodes)

\* ------------------------------------------------------------ NakamotoScore

\* The distinct items of a column, in order of first occurrence.  Counter is a
\* HashMap, whose iteration order is unspecified; nakamoto sorts its input,
\* so any order gives the same result.
RECURSIVE Distinct(_)
Distinct(column) ==
    IF column = << >> THEN << >>
    ELSE LET front == Distinct(SubSeq(column, 1, Len(column) - 1))
             last == column[Len(column)]
         IN  IF \E i \in 1..Len(front) : front[i] = last
             THEN front ELSE Append(front, last)

Occurrences(column, item) == Cardinality({ i \in 1..Len(column) : column[i] = item })

\* value.1.iter().collect::<Counter<_>>().iter().map(|x| *x.1).collect():
\* the number of nodes under each distinct Option<String> of the column.
counter(column) ==
    LET keys == Distinct(column)
    IN  [i \in 1..Len(keys) |-> Occurrences(column, keys[i])]

\* Iterator::collect into a Vec or a HashMap: the entries of the map, each
\* computed once.
collect(map) == map @@ << >>

\* features_to_nodes_map: per feature, node_features.get(&feature) of every
\* node of the slice, in slice order.
features_to_nodes_map(slice_node_features) ==
    collect([f \in Feature |->
        collect([i \in 1..Len(slice_node_features) |-> get(slice_node_features[i], f)])])

\* nakamoto_calc: per feature, the kernel on the column's counts.
nakamoto_calc(slice_node_features) ==
    LET map == features_to_nodes_map(slice_node_features)
    IN  collect([f \in Feature |-> nakamoto(counter(map[f]))])

RECURSIVE SumOver(_, _)
SumOver(coefficients, features) ==
    IF features = << >> THEN 0
    ELSE coefficients[Head(features)] + SumOver(coefficients, Tail(features))

RECURSIVE ProductOver(_, _)
ProductOver(coefficients, features) ==
    IF features = << >> THEN 1
    ELSE coefficients[Head(features)] * ProductOver(coefficients, Tail(features))

\* 1.0 / 0.0: above every usize widened to f64.
PosInfinity == UsizeMax + 1

\* .fold(1.0 / 0.0, |acc, x| if x < acc { x } else { acc }) over the features
\* left; every coefficient is finite, so is_finite maps it to itself.
RECURSIVE MinFold(_, _, _)
MinFold(coefficients, features, acc) ==
    IF features = << >> THEN acc
    ELSE LET x == coefficients[Head(features)]
         IN  MinFold(coefficients, Tail(features), IF x < acc THEN x ELSE acc)

\* The fold of `min` over scores.values(): one entry per Feature.
MinOver(coefficients) == MinFold(coefficients, FeatureVariants, PosInfinity)

\* NakamotoScore::new_from_slice_node_features
new_from_slice_node_features(slice_node_features) ==
    LET calc == nakamoto_calc(slice_node_features)
        scores == collect([f \in Feature |-> calc[f][1]])
    IN  [ coefficients |-> scores,
          controlled_nodes |-> collect([f \in Feature |-> calc[f][2]]),
          avg_linear |-> SumOver(scores, FeatureVariants),
          avg_log2 |-> ProductOver(scores, FeatureVariants),
          min |-> MinOver(scores) ]

score_avg_linear(self) == self.avg_linear

score_avg_log2(self) == self.avg_log2

score_min(self) == self.min

\* `c < self.score_avg_linear()` for a coefficient c.
BelowAvgLinear(c, self) == Len(FeatureVariants) * c < score_avg_linear(self)

\* NakamotoScore::control_power_critical_features: the controlled nodes of
\* the features whose coefficient is the least one.
control_power_critical_features(self) ==
    LET score == MinOver(self.coefficients)
        critical_feats == SelectSeq(FeatureVariants, LAMBDA f : self.coefficients[f] <= score)
    IN  SumOver(self.controlled_nodes, critical_feats)

\* f64 / usize partial_cmp of a with b.
Cmp(a, b) == IF a < b THEN "Less" ELSE IF a = b THEN "Equal" ELSE "Greater"

\* The loop of partial_cmp over Feature::variants(), from the features left.
RECURSIVE cmp_features(_, _, _)
cmp_features(self, other, features) ==
    IF features = << >> THEN "Equal"
    ELSE LET c1 == self.coefficients[Head(features)]
             c2 == other.coefficients[Head(features)]
         IN  IF (BelowAvgLinear(c1, self) \/ BelowAvgLinear(c2, self)) /\ c2 # c1
             THEN Cmp(c2, c1)
             ELSE cmp_features(self, other, Tail(features))

\* The number of coefficients of `of` below self.score_avg_linear().
below_average_count(of, self) ==
    Cardinality({ f \in Feature : BelowAvgLinear(of.coefficients[f], self) })

\* PartialOrd::partial_cmp for NakamotoScore (always Some: no NaN arises).
partial_cmp(self, other) ==
    LET by_min == Cmp(score_min(self), score_min(other))
        c1 == below_average_count(self, self)
        c2 == below_average_count(other, self)
        by_count == Cmp(c2, c1)
        by_feature == cmp_features(self, other, FeatureVariants)
        by_control == Cmp(control_power_critical_features(other),
                          control_power_critical_features(self))
        by_log2 == Cmp(score_avg_log2(self), score_avg_log2(other))
    IN  IF by_min # "Equal" THEN by_min
        ELSE IF by_count # "Equal" THEN by_count
        ELSE IF by_feature # "Equal" THEN by_feature
        ELSE IF by_control # "Equal" THEN by_control
        ELSE IF by_log2 # "Equal" THEN by_log2
        ELSE Cmp(score_avg_linear(self), score_avg_linear(other))

\* Ord::cmp for NakamotoScore
cmp(self, other) == partial_cmp(self, other)

\* PartialEq::eq for NakamotoScore
eq(self, other) ==
    /\ self.coefficients = other.coefficients
    /\ self.controlled_nodes = other.controlled_nodes

\* ------------------------------------------------------------------ state

VARIABLES
    op,                   \* the function the run applies
    values,               \* nakamoto: the argument
    result,               \* nakamoto: (sum_actors, sum_nodes), once it returned
    values2,              \* nakamoto: a second argument made from `values`
    result2,              \* nakamoto: its result
    variant,              \* how values2 / slice2 was made from the first argument
    slice_node_features,  \* new_from_slice_node_features: the argument
    kernel_inputs,        \* the Vec<usize> handed to nakamoto, per feature
    score,                \* the NakamotoScore built, once it returned
    slice2,               \* the same nodes in another order
    score2,               \* the score built from slice2
    scores,               \* cmp / eq: the scores a, b, c under comparison
    ordering,             \* cmp: ordering[i][j] = scores[i].cmp(scores[j])
    equality,             \* eq: equality[i][j] = (scores[i] == scores[j])
    request,              \* the SubnetChangeRequest and the operation asked of it
    search,               \* optimize: the nodes, step and moves committed so far
    change,               \* what the operation on the subnet returned
    definitions,          \* add_definition: binding.definitions, the Vec<Definition>
    handles,              \* add_definition: binding.handles, the Vec<JoinHandle>
    definitions_lock,     \* the call holding the definitions MutexGuard, if any
    handles_lock,         \* the call holding the handles MutexGuard, if any
    calls                 \* per add_definition call: its argument, position, reply

kernel_vars == << values, result, values2, result2 >>

score_vars == << slice_node_features, kernel_inputs, score, slice2, score2 >>

order_vars == << scores, ordering, equality >>

change_vars == << request, search, change >>

add_vars == << definitions, handles, definitions_lock, handles_lock, calls >>

vars == << op, variant, kernel_vars, score_vars, order_vars, change_vars, add_vars >>

\* A call that has not returned holds None, one that returned r holds Some(r).
Pending == None

\* ------------------------------------------------------------------ inputs

SeqsUpTo(n, S) == UNION { [1..k -> S] : k \in 0..n }

Ones(n) == [i \in 1..n |-> 1]

\* The vectors of tests::computes_nakamoto_scores that the bounds above do
\* not already hold.
TestVectors ==
    { << 1, 2, 1, 2, 1 >>, << 1, 1, 2, 3, 5, 1 >>, << 1, 1, 2, 3, 5, 1, 2 >> }

KernelInputs ==
    SeqsUpTo(MaxLen, 0..MaxVal) \cup { Ones(n) : n \in 1..MaxOnes } \cup TestVectors

Values == { "v1", "v2" }

\* The features the tests override (subnet_optimize_node_providers,
\* subnet_usa_dominance).
OverrideFeatures == { "node_provider", "country" }

\* NodeFeatures as the tests build them: one value on every feature, with at
\* most one feature overridden or absent.
NodeFeatureSets ==
    { new_test_feature_set(v) : v \in Values }
    \cup { with_feature_value(new_test_feature_set(v), f, w) :
              v \in Values, f \in OverrideFeatures, w \in Values }
    \cup { without_feature(new_test_feature_set(v), f) :
              v \in Values, f \in OverrideFeatures }

SliceInputs == SeqsUpTo(MaxNodes, NodeFeatureSets)

Swap(s, i, j) ==
    [k \in 1..Len(s) |-> IF k = i THEN s[j] ELSE IF k = j THEN s[i] ELSE s[k]]

KernelIdle ==
    /\ values = << >> /\ result = Pending /\ values2 = << >> /\ result2 = Pending

ScoreIdle ==
    /\ slice_node_features = << >> /\ kernel_inputs = Pending /\ score = Pending
    /\ slice2 = << >> /\ score2 = Pending

OrderIdle == scores = << >> /\ ordering = Pending /\ equality = Pending

ChangeIdle == request = << >> /\ search = << >> /\ change = Pending

AddIdle ==
    /\ definitions = << >> /\ handles = << >> /\ calls = << >>
    /\ definitions_lock = None /\ handles_lock = None

\* ------------------------------------------------------------------ Spec

InitKernel ==
    /\ op = "nakamoto"
    /\ variant = "none"
    /\ values \in KernelInputs
    /\ ~ usize_sum_overflows(values)
    /\ result = Pending
    /\ values2 = values
    /\ result2 = Pending
    /\ ScoreIdle
    /\ OrderIdle
    /\ ChangeIdle
    /\ AddIdle

InitScore ==
    /\ op = "new_from_slice_node_features"
    /\ variant = "none"
    /\ slice_node_features \in SliceInputs
    /\ kernel_inputs = Pending
    /\ score = Pending
    /\ slice2 = slice_node_features
    /\ score2 = Pending
    /\ KernelIdle
    /\ OrderIdle
    /\ ChangeIdle
    /\ AddIdle

Init == InitKernel \/ InitScore

\* NakamotoScore::nakamoto(&values)
Nakamoto ==
    /\ op = "nakamoto"
    /\ variant # "panicked"
    /\ result = Pending
    /\ result' = Some(nakamoto(values))
    /\ UNCHANGED << op, variant, values, values2, result2, score_vars, order_vars, change_vars, add_vars >>

\* nakamoto on the same counts in another order, as the tests call it on
\* [1, 2, 3], [2, 3, 1] and [3, 2, 1].
NakamotoShuffled ==
    /\ op = "nakamoto"
    /\ result # Pending
    /\ variant \in { "none", "shuffled" }
    /\ \E i, j \in 1..Len(values2) :
          /\ i < j
          /\ values2' = Swap(values2, i, j)
    /\ result2' = Some(nakamoto(values2'))
    /\ variant' = "shuffled"
    /\ UNCHANGED << op, values, result, score_vars, order_vars, change_vars, add_vars >>

\* nakamoto on the same actors after one of them got one more node.
NakamotoGrown ==
    /\ op = "nakamoto"
    /\ result # Pending
    /\ variant = "none"
    /\ \E i \in 1..Len(values) :
          /\ values2' = [values EXCEPT ![i] = @ + 1]
          /\ ~ usize_sum_overflows(values2')
    /\ result2' = Some(nakamoto(values2'))
    /\ variant' = "grown"
    /\ UNCHANGED << op, values, result, score_vars, order_vars, change_vars, add_vars >>

\* NakamotoScore::new_from_slice_node_features(&slice)
NewFromSlice ==
    /\ op = "new_from_slice_node_features"
    /\ score = Pending
    /\ kernel_inputs' =
          Some([f \in Feature |-> counter(features_to_nodes_map(slice_node_features)[f])])
    /\ score' = Some(new_from_slice_node_features(slice_node_features))
    /\ UNCHANGED << op, variant, slice_node_features, slice2, score2, kernel_vars, order_vars, change_vars, add_vars >>

\* The score of the same nodes with two of them exchanged.  SliceInputs holds
\* every order of every slice, so one exchange from each of them covers every
\* reordering.
NewFromReorderedSlice ==
    /\ op = "new_from_slice_node_features"
    /\ score # Pending
    /\ variant = "none"
    /\ \E i, j \in 1..Len(slice_node_features) :
          /\ i < j
          /\ slice2' = Swap(slice_node_features, i, j)
    /\ score2' = Some(new_from_slice_node_features(slice2'))
    /\ variant' = "shuffled"
    /\ UNCHANGED << op, slice_node_features, kernel_inputs, score, kernel_vars, order_vars, change_vars, add_vars >>

Next ==
    \/ Nakamoto
    \/ NakamotoShuffled
    \/ NakamotoGrown
    \/ NewFromSlice
    \/ NewFromReorderedSlice

Spec == Init /\ [][Next]_vars

\* ------------------------------------------------------------- SpecOrder

\* Every score that new_from_slice_node_features builds from a bounded slice.
BuiltScores == { new_from_slice_node_features(s) : s \in SliceInputs }

InitOrder ==
    /\ op = "cmp"
    /\ variant = "none"
    /\ scores \in [1..3 -> BuiltScores]
    /\ ordering = Pending
    /\ equality = Pending
    /\ KernelIdle
    /\ ScoreIdle
    /\ ChangeIdle
    /\ AddIdle

\* a.cmp(b) and a == b of every two of the scores.
Compare ==
    /\ op = "cmp"
    /\ ordering = Pending
    /\ ordering' = Some([i \in 1..3 |-> [j \in 1..3 |-> cmp(scores[i], scores[j])]])
    /\ equality' = Some([i \in 1..3 |-> [j \in 1..3 |-> eq(scores[i], scores[j])]])
    /\ UNCHANGED << op, variant, scores, kernel_vars, score_vars, change_vars, add_vars >>

NextOrder == Compare

SpecOrder == InitOrder /\ [][NextOrder]_vars

\* ------------------------------------------------------------ SpecChange
\* The subnet model and the change engine (crate::network) are not among the
\* sources; their operations follow sections 4.5 and 7 of the specification.
\* The nodes and requests are those the tests build.

\* Node::new_test_node(id, features, dfinity_owned)
new_test_node(id, features, dfinity_owned) ==
    [id |-> id, features |-> features, dfinity_owned |-> dfinity_owned]

\* tests::new_test_nodes_with_overrides: node i has the value
\* "<prefix> <i>" on every feature, but override_val[i] on the one overridden.
new_test_nodes_with_overrides(feat_prefix, node_number_start, num_nodes, num_dfinity_nodes, feature, override_val) ==
    collect([k \in 1..num_nodes |->
        LET i == k - 1
        IN  new_test_node(
                node_number_start + i,
                IF k <= Len(override_val)
                THEN with_feature_value(
                         new_test_feature_set(feat_prefix \o " " \o ToString(i)),
                         feature, override_val[k])
                ELSE new_test_feature_set("feat " \o ToString(i)),
                i < num_dfinity_nodes)])

\* NakamotoScore::new_from_nodes
new_from_nodes(nodes) ==
    new_from_slice_node_features([i \in 1..Len(nodes) |-> nodes[i].features])

Ids(nodes) == { nodes[i].id : i \in 1..Len(nodes) }

without_nodes(nodes, ids) == SelectSeq(nodes, LAMBDA n : n.id \notin ids)

\* The nodes of the pool that may be added: not excluded, not members.
candidates(req, nodes) ==
    SelectSeq(req.pool, LAMBDA c : c.id \notin req.exclusions /\ c.id \notin Ids(nodes))

\* Whether the subnet `with` replaces the best subnet so far: a strictly
\* greater score, or an equal one reached by a node that is not
\* dfinity_owned where the best so far is; otherwise the earlier one stays.
better(with, with_added, best, best_added) ==
    LET o == cmp(new_from_nodes(with), new_from_nodes(best))
    IN  \/ o = "Greater"
        \/ o = "Equal" /\ best_added.dfinity_owned /\ ~ with_added.dfinity_owned

\* The candidate whose insertion gives the greatest score, from `best` on.
RECURSIVE best_add(_, _, _)
best_add(nodes, cands, best) ==
    IF cands = << >> THEN best
    ELSE LET c == Head(cands)
             take == \/ best = None
                     \/ better(Append(nodes, c), c, Append(nodes, best[1]), best[1])
         IN  best_add(nodes, Tail(cands), IF take THEN Some(c) ELSE best)

\* An extend that puts the nodes it picks in front.
extend_front(nodes, k, cands) ==
    IF Len(cands) < k THEN None ELSE Some(SubSeq(cands, 1, k) \o nodes)

\* extend(subnet, k, pool): k times, append the best candidate; None when the
\* candidates do not suffice.
RECURSIVE extend(_, _, _)
extend(nodes, k, cands) ==
    IF k = 0 THEN Some(nodes)
    ELSE IF Len(cands) < k THEN None
    ELSE LET c == best_add(nodes, cands, None)[1]
         IN  extend(Append(nodes, c), k - 1, without_nodes(cands, {c.id}))

\* A search that may remove pinned nodes as well.
removable_ignoring_pins(req, nodes) ==
    SelectSeq(nodes, LAMBDA n : n.id \in Ids(req.subnet))

\* The nodes optimize may remove: members of the input subnet, not pinned.
removable(req, nodes) ==
    SelectSeq(nodes, LAMBDA n : n.id \in Ids(req.subnet) /\ n.id \notin req.pins)

\* One step of the greedy schedule: for every removable node the best single
\* add after its removal, and of these swaps the one of greatest post-fill
\* score, from `best` on.  A swap is [remove, add, nodes].
RECURSIVE best_swap(_, _, _, _)
best_swap(nodes, victims, cands, best) ==
    IF victims = << >> \/ cands = << >> THEN best
    ELSE LET r == Head(victims)
             rest == without_nodes(nodes, {r.id})
             c == best_add(rest, cands, None)[1]
             swap == [remove |-> r.id, add |-> c, nodes |-> Append(rest, c)]
             take == \/ best = None
                     \/ better(swap.nodes, c, best[1].nodes, best[1].add)
         IN  best_swap(nodes, Tail(victims), cands, IF take THEN Some(swap) ELSE best)

subnet_change(before, after, removed, added) ==
    [ok |-> TRUE, before |-> before, after |-> after, removed |-> removed, added |-> added]

failure(error) == [ok |-> FALSE, error |-> error]

\* An optimize that returns what the search found, whatever its score.
optimize_result_unchecked(req, found) ==
    subnet_change(req.subnet, found.nodes, found.removed, found.added)

\* Step 5 of optimize: the change found when its score is strictly greater
\* than the score of the input subnet, the no-op change otherwise.
optimize_result(req, found) ==
    IF cmp(new_from_nodes(found.nodes), new_from_nodes(req.subnet)) = "Greater"
    THEN subnet_change(req.subnet, found.nodes, found.removed, found.added)
    ELSE subnet_change(req.subnet, req.subnet, << >>, << >>)

\* The ids replace removes: the victims and, with heal, the unhealthy members.
to_remove(req) ==
    { req.victims[i] : i \in 1..Len(req.victims) }
    \cup (IF req.heal THEN req.unhealthy \cap Ids(req.subnet) ELSE {})

\* replace(subnet, victim_ids, heal, pool)
replace(req) ==
    LET ids == to_remove(req)
        kept == without_nodes(req.subnet, ids)
        extended == extend(kept, Cardinality(ids), candidates(req, req.subnet))
    IN  IF ids \cap req.pins # {} THEN failure("PinnedAndRemoved")
        ELSE IF ~ (ids \subseteq Ids(req.subnet)) THEN failure("UnknownNode")
        ELSE IF extended = None THEN failure("InsufficientCandidates")
        ELSE subnet_change(req.subnet, extended[1],
                           [i \in 1..(Len(req.subnet) - Len(kept)) |->
                               without_nodes(req.subnet, Ids(kept))[i].id],
                           [i \in 1..Cardinality(ids) |-> extended[1][Len(kept) + i].id])

\* The subnets and pools of the tests: every feature distinct per node,
\* node_provider overridden; one DFINITY-owned node in the subnet, and a pool
\* that is DFINITY-owned entirely or not at all.
MaxSubnet == 3
MaxPool == 2
MaxOptimize == 2

Providers == << "NP1", "NP2", "NP3" >>

\* The provider of every node of subnet and pool.  A score reads only which
\* nodes share a value, so the lists are taken up to renaming: a provider
\* appears first after all the providers before it in Providers.
ProviderLists(len) ==
    { nps \in [1..len -> 1..Len(Providers)] :
        \A i \in 1..len : \A k \in 1..(nps[i] - 1) : \E j \in 1..(i - 1) : nps[j] = k }

UpTo1(S) == { {} } \cup { {x} : x \in S }

TestSubnet(n, nps) ==
    new_test_nodes_with_overrides("feat", 0, n, 1, "node_provider",
                                  [i \in 1..n |-> Providers[nps[i]]])

TestPool(n, pool_size, nps, num_dfinity_nodes) ==
    new_test_nodes_with_overrides("spare", n, pool_size, num_dfinity_nodes, "node_provider",
                                  [i \in 1..pool_size |-> Providers[nps[n + i]]])

InitOptimize ==
    /\ op = "optimize"
    /\ \E n \in 1..MaxSubnet, pool_size \in 0..MaxPool :
       \E nps \in ProviderLists(n + pool_size), d \in { 0, pool_size } :
       \E subnet \in { TestSubnet(n, nps) }, pool \in { TestPool(n, pool_size, nps, d) } :
              /\ \E pins \in UpTo1(Ids(subnet)), exclusions \in UpTo1(Ids(pool)),
                    m \in 0..MaxOptimize :
                    request = [subnet |-> subnet, pool |-> pool, pins |-> pins,
                               exclusions |-> exclusions, optimize |-> m]
              /\ search = [nodes |-> subnet, step |-> 0,
                           removed |-> << >>, added |-> << >>]

\* replace: at most one victim id, of the subnet or unknown to it, and at
\* most one member tagged unhealthy.
InitReplace ==
    /\ op = "replace"
    /\ \E n \in 1..MaxSubnet, pool_size \in 0..MaxPool :
       \E nps \in ProviderLists(n + pool_size) :
       \E subnet \in { TestSubnet(n, nps) }, pool \in { TestPool(n, pool_size, nps, 0) } :
              \E pins \in UpTo1(Ids(subnet)), victims \in SeqsUpTo(1, 0..n),
                 unhealthy \in UpTo1({ n - 1 }), heal \in BOOLEAN :
                 request = [subnet |-> subnet, pool |-> pool, pins |-> pins,
                            exclusions |-> {}, victims |-> victims,
                            heal |-> heal, unhealthy |-> unhealthy]
    /\ search = << >>

InitChange ==
    /\ InitOptimize \/ InitReplace
    /\ variant = "none"
    /\ change = Pending
    /\ KernelIdle
    /\ ScoreIdle
    /\ OrderIdle
    /\ AddIdle

\* optimize, one step of the greedy schedule: commit the best swap, or stop
\* when nothing can be removed or added.
OptimizeStep ==
    /\ op = "optimize"
    /\ change = Pending
    /\ search.step < request.optimize
    /\ LET best == best_swap(search.nodes, removable(request, search.nodes),
                             candidates(request, search.nodes), None)
       IN  search' =
              IF best = None
              THEN [search EXCEPT !.step = request.optimize]
              ELSE [nodes |-> best[1].nodes,
                    step |-> search.step + 1,
                    removed |-> Append(search.removed, best[1].remove),
                    added |-> Append(search.added, best[1].add.id)]
    /\ UNCHANGED << op, variant, request, change, kernel_vars, score_vars, order_vars, add_vars >>

\* optimize returns, after the last step.
OptimizeFinish ==
    /\ op = "optimize"
    /\ change = Pending
    /\ search.step = request.optimize
    /\ change' = Some(optimize_result(request, search))
    /\ UNCHANGED << op, variant, request, search, kernel_vars, score_vars, order_vars, add_vars >>

\* replace, whole.
Replace ==
    /\ op = "replace"
    /\ change = Pending
    /\ change' = Some(replace(request))
    /\ UNCHANGED << op, variant, request, search, kernel_vars, score_vars, order_vars, add_vars >>

NextChange == OptimizeStep \/ OptimizeFinish \/ Replace

SpecChange == InitChange /\ [][NextChange]_vars

\* ------------------------------------------------------------ SpecSubnet
\* check_business_rules, new_extended_subnet and the optimize runs of the
\* tests.  The operations belong to crate::network and follow sections 4.4
\* and 4.5 of the specification; where a test states a result (the message
\* of a violation and the numbers in it), the test is followed.

\* tests::new_test_nodes: node i has the value "<prefix> <i>" on every
\* feature; the first num_dfinity_nodes nodes are DFINITY-owned.
new_test_nodes(feat_prefix, num_nodes, num_dfinity_nodes) ==
    collect([k \in 1..num_nodes |->
        new_test_node(k - 1,
                      new_test_feature_set(feat_prefix \o " " \o ToString(k - 1)),
                      k - 1 < num_dfinity_nodes)])

\* The number of nodes of the subnet with the given value on the feature.
value_count(nodes, feature, value) ==
    Cardinality({ i \in 1..Len(nodes) : get(nodes[i].features, feature) = value })

\* The largest number of nodes any single value of the feature controls.
max_value_count(nodes, feature) ==
    LET counts == { value_count(nodes, feature, get(nodes[i].features, feature)) :
                       i \in { j \in 1..Len(nodes) : get(nodes[j].features, feature) # None } }
    IN  IF counts = {} THEN 0 ELSE CHOOSE c \in counts : \A d \in counts : d <= c

\* The limit of rule 2 as section 4.4 words it: the ceiling of 2n/3.
super_majority_limit_ceiling(n) == (2 * n + 2) \div 3

\* The limit of rule 2: tests::subnet_usa_dominance reports "9 of nodes, which
\* is >= 8 (2/3 of all) nodes" for 13 nodes, the integer quotient 2n/3.
super_majority_limit(n) == (2 * n) \div 3

\* Rule 1 as section 4.4 words it: only a subnet of size >= 1 needs a
\* DFINITY-owned node.
dfinity_node_missing_k1(nodes) ==
    Len(nodes) >= 1 /\ \A i \in 1..Len(nodes) : ~ nodes[i].dfinity_owned

\* Rule 1: no node of the subnet is DFINITY-owned.
\* tests::test_business_rules_fail has the subnet of size 0 fail it as well.
dfinity_node_missing(nodes) == \A i \in 1..Len(nodes) : ~ nodes[i].dfinity_owned

\* Rule 2, from the features left: the first feature with a value at or above
\* the limit, as << feature, count >>; None when there is none.
RECURSIVE feature_super_majority(_, _)
feature_super_majority(nodes, features) ==
    IF features = << >> THEN None
    ELSE LET count == max_value_count(nodes, Head(features))
         IN  IF count >= super_majority_limit(Len(nodes))
             THEN Some(<< Head(features), count >>)
             ELSE feature_super_majority(nodes, Tail(features))

\* Rule 3: one node provider alone reaches the kernel's threshold.  The size
\* from which the rule applies is not stated; none is assumed.
single_node_provider_can_halt(nodes) ==
    new_from_nodes(nodes).coefficients["node_provider"] = 1

success == [ok |-> TRUE]

violation(error, feature, count, limit) ==
    [ok |-> FALSE, error |-> error, feature |-> feature, count |-> count, limit |-> limit]

\* check_business_rules: success, or the first violation in the order of the
\* rules.
check_business_rules(nodes) ==
    LET majority == feature_super_majority(nodes, FeatureVariants)
    IN  IF dfinity_node_missing(nodes)
        THEN violation("DfinityOwnedNodeMissing", "", 0, 0)
        ELSE IF majority # None
        THEN violation("FeatureSuperMajority", majority[1][1], majority[1][2],
                       super_majority_limit(Len(nodes)))
        ELSE IF single_node_provider_can_halt(nodes)
        THEN violation("SingleNodeProviderCanHalt", "", 0, 0)
        ELSE success

\* unwrap_err().to_string() of a violation, as the tests read it.
to_string(v) ==
    IF v.error = "DfinityOwnedNodeMissing" THEN "DFINITY-owned node missing"
    ELSE IF v.error = "SingleNodeProviderCanHalt"
    THEN "A single Node Provider can halt a subnet"
    ELSE "Feature '" \o v.feature \o "' controls " \o ToString(v.count)
         \o " of nodes, which is >= " \o ToString(v.limit) \o " (2/3 of all) nodes"

extended_subnet(nodes) == [ok |-> TRUE, nodes |-> nodes]

\* Subnet::new_extended_subnet(k, pool): the subnet extended by k nodes of the
\* pool, or InsufficientCandidates.
new_extended_subnet(nodes, k, pool) ==
    LET extended == extend(nodes, k, pool)
    IN  IF extended = None THEN failure("InsufficientCandidates")
        ELSE extended_subnet(extended[1])

MaxRuleNodes == 14
MaxDfinity == 2

\* A country list of the shape of tests::subnet_usa_dominance: the first
\* `us` nodes in "US", every other node in a country of its own.
CountryList(n, us) ==
    [i \in 1..n |-> IF i <= us THEN "US" ELSE "country " \o ToString(i)]

UsaDominance ==
    << "US", "US", "US", "US", "US", "US", "US", "US", "US", "CH", "BE", "SG", "SI" >>

NodeProvidersCanHalt == << "NP1", "NP2", "NP2", "NP2", "NP3", "NP4", "NP5" >>

NodeProvidersValid == << "NP1", "NP2", "NP2", "NP3", "NP4", "NP4", "NP5" >>

SpareProviders == << "NP6", "NP7" >>

\* The subnets check_business_rules is called on.
RuleSubnets ==
    { new_test_nodes("feat", n, d) : n \in 0..MaxRuleNodes, d \in 0..MaxDfinity }
    \cup { new_test_nodes_with_overrides("feat", 0, n, d, "country", CountryList(n, us)) :
              n \in 1..MaxRuleNodes, d \in 0..1, us \in 1..MaxRuleNodes }
    \cup { new_test_nodes_with_overrides("feat", 0, 13, 1, "country", UsaDominance),
           new_test_nodes_with_overrides("feat", 0, 7, 1, "node_provider", NodeProvidersCanHalt),
           new_test_nodes_with_overrides("feat", 0, 7, 1, "node_provider", NodeProvidersValid) }

InitRules ==
    /\ op = "check_business_rules"
    /\ \E subnet \in RuleSubnets : request = [subnet |-> subnet]
    /\ search = << >>

\* new_extended_subnet on the small subnets and pools, and on the subnet and
\* spare of tests::extend_feature_set_group.
InitExtend ==
    /\ op = "new_extended_subnet"
    /\ \/ \E n \in 1..MaxSubnet, pool_size \in 0..MaxPool :
          \E nps \in ProviderLists(n + pool_size), d \in { 0, pool_size } :
          \E subnet \in { TestSubnet(n, nps) }, pool \in { TestPool(n, pool_size, nps, d) } :
          \E k \in 0..(MaxPool + 1) :
             request = [subnet |-> subnet, pool |-> pool, size |-> k]
       \/ request = [subnet |-> new_test_nodes("feat", 12, 1),
                     pool |-> new_test_nodes("spare", 1, 0), size |-> 1]
    /\ search = << >>

\* SubnetChangeRequest::new(subnet_initial, nodes_available, Vec::new(),
\* Vec::new(), 0) followed by optimize(2), as the three optimize tests call it.
optimize_request(subnet, nodes_available) ==
    [subnet |-> subnet, pool |-> nodes_available, pins |-> {}, exclusions |-> {},
     optimize |-> 2]

NodeProvidersRequest ==
    optimize_request(
        new_test_nodes_with_overrides("feat", 0, 7, 1, "node_provider", NodeProvidersCanHalt),
        new_test_nodes_with_overrides("spare", 7, 2, 0, "node_provider", SpareProviders))

PreferNonDfinityRequest ==
    optimize_request(
        new_test_nodes_with_overrides("feat", 0, 7, 1, "node_provider", NodeProvidersValid),
        new_test_nodes_with_overrides("spare", 7, 2, 2, "node_provider", SpareProviders))

UsaDominanceRequest ==
    optimize_request(
        new_test_nodes_with_overrides("feat", 0, 13, 1, "country", UsaDominance),
        new_test_nodes_with_overrides("spare", 13, 3, 0, "country", << "US", "RO", "JP" >>))

InitTestOptimize ==
    /\ op = "optimize"
    /\ request \in { NodeProvidersRequest, PreferNonDfinityRequest, UsaDominanceRequest }
    /\ search = [nodes |-> request.subnet, step |-> 0, removed |-> << >>, added |-> << >>]

InitSubnet ==
    /\ InitRules \/ InitExtend \/ InitTestOptimize
    /\ variant = "none"
    /\ change = Pending
    /\ KernelIdle
    /\ ScoreIdle
    /\ OrderIdle
    /\ AddIdle

\* subnet.check_business_rules()
CheckBusinessRules ==
    /\ op = "check_business_rules"
    /\ change = Pending
    /\ change' = Some(check_business_rules(request.subnet))
    /\ UNCHANGED << op, variant, request, search, kernel_vars, score_vars, order_vars, add_vars >>

\* subnet.new_extended_subnet(size, &pool)
Extend ==
    /\ op = "new_extended_subnet"
    /\ change = Pending
    /\ change' = Some(new_extended_subnet(request.subnet, request.size, request.pool))
    /\ UNCHANGED << op, variant, request, search, kernel_vars, score_vars, order_vars, add_vars >>

NextSubnet == CheckBusinessRules \/ Extend \/ OptimizeStep \/ OptimizeFinish

SpecSubnet == InitSubnet /\ [][NextSubnet]_vars

\* ---------------------------------------------------------- SpecOverflow
\* nakamoto on counts near the word maximum.  `values.iter().sum()` is a
\* plain usize sum: a build with overflow checks panics when the sum leaves
\* the word, a build without them wraps; either build may be the one running.

MaxAdversarialLen == 4

AdversarialCounts ==
    { 1, 2 ^ (UsizeBits - 2), 2 ^ (UsizeBits - 1), UsizeMax - 1, UsizeMax }

AdversarialInputs == SeqsUpTo(MaxAdversarialLen, AdversarialCounts)

InitOverflow ==
    /\ op = "nakamoto"
    /\ variant = "none"
    /\ values \in AdversarialInputs
    /\ result = Pending
    /\ values2 = values
    /\ result2 = Pending
    /\ ScoreIdle
    /\ OrderIdle
    /\ ChangeIdle
    /\ AddIdle

\* nakamoto in a build with overflow checks: the sum panics with "attempt to
\* add with overflow" and nothing is returned.
NakamotoPanics ==
    /\ op = "nakamoto"
    /\ variant = "none"
    /\ result = Pending
    /\ usize_sum_overflows(values)
    /\ variant' = "panicked"
    /\ UNCHANGED << op, kernel_vars, score_vars, order_vars, change_vars, add_vars >>

NextOverflow == Nakamoto \/ NakamotoPanics

SpecOverflow == InitOverflow /\ [][NextOverflow]_vars

\* --------------------------------------------------------------- SpecAdd
\* add_definition of the multiservice-discovery server, called concurrently.
\* binding.definitions and binding.handles are tokio Mutexes shared by all
\* calls; a call is cut at its await points and at its accesses to them.

MaxCalls == 2

Calls == 1..MaxCalls

Names == { "ic1", "ic2" }

\* DefinitionDto.public_key: absent, a key that parses, base64 of something
\* that is not a DER key, or a string that is not base64.
PublicKeys == { "none", "valid", "bad_der", "bad_base64" }

\* warp::reply::with_status(body, status)
with_status(body, status) == [body |-> body, status |-> status]

\* Definition::new: the definition a call makes carries its own stop-signal
\* channel, so the definitions of two calls are told apart by the call.
Definition_new(name, call) == [name |-> name, by |-> call]

\* definitions.iter().any(|d| d.name == definition.name)
name_exists(defs, name) == \E i \in 1..Len(defs) : defs[i].name = name

lock_ignored(holder) == TRUE

\* Mutex::lock().await resolves only while no other guard is alive.
lock_available(holder) == holder = None

goto(c, pc) == [calls EXCEPT ![c].pc = pc]

return(c, reply) == [calls EXCEPT ![c].pc = "returned", ![c].reply = Some(reply)]

\* The server starts with no definition or with one that is already synced;
\* every call is about to run from its first line.
InitAdd ==
    /\ op = "add_definition"
    /\ variant = "none"
    /\ \/ definitions = << >> /\ handles = << >>
       \/ definitions = << Definition_new("ic1", 0) >> /\ handles = << 0 >>
    /\ definitions_lock = None
    /\ handles_lock = None
    /\ \E dtos \in [Calls -> [name : Names, public_key : PublicKeys]] :
          calls = [c \in Calls |-> [definition |-> dtos[c],
                                    pc |-> "parse_public_key", reply |-> None]]
    /\ KernelIdle
    /\ ScoreIdle
    /\ OrderIdle
    /\ ChangeIdle

add_idle_vars == << op, variant, kernel_vars, score_vars, order_vars, change_vars >>

\* lines 28-43: decode and parse the key; unwrap panics on bad base64, a DER
\* error returns BAD_REQUEST; no lock is held yet.
ParsePublicKey(c) ==
    /\ calls[c].pc = "parse_public_key"
    /\ calls' = CASE calls[c].definition.public_key = "bad_base64" -> goto(c, "panicked")
                  [] calls[c].definition.public_key = "bad_der" ->
                        return(c, with_status("parse error", "BAD_REQUEST"))
                  [] OTHER -> goto(c, "lock_definitions")
    /\ UNCHANGED << definitions, handles, definitions_lock, handles_lock, add_idle_vars >>

\* line 45: binding.definitions.lock().await
LockDefinitions(c) ==
    /\ calls[c].pc = "lock_definitions"
    /\ lock_available(definitions_lock)
    /\ definitions_lock' = Some(c)
    /\ calls' = goto(c, "check_name")
    /\ UNCHANGED << definitions, handles, handles_lock, add_idle_vars >>

\* lines 47-52: the name check; the return drops the guard.
CheckName(c) ==
    /\ calls[c].pc = "check_name"
    /\ IF name_exists(definitions, calls[c].definition.name)
       THEN /\ calls' = return(c, with_status("Definition with this name already exists",
                                              "BAD_REQUEST"))
            /\ definitions_lock' = None
       ELSE /\ calls' = goto(c, "nns_reachable")
            /\ UNCHANGED definitions_lock
    /\ UNCHANGED << definitions, handles, handles_lock, add_idle_vars >>

\* lines 54-59: nns_reachable(..).await, with the guard alive across the
\* await; the network decides the outcome.
NnsReachable(c) ==
    /\ calls[c].pc = "nns_reachable"
    /\ \E reachable \in BOOLEAN :
          IF ~reachable
          THEN /\ calls' = return(c, with_status("Couldn't ping nns of that definition",
                                                 "BAD_REQUEST"))
               /\ definitions_lock' = None
          ELSE /\ calls' = goto(c, "push_definition")
               /\ UNCHANGED definitions_lock
    /\ UNCHANGED << definitions, handles, handles_lock, add_idle_vars >>

\* lines 61-76: Definition::new, definitions.push, thread::spawn
PushDefinition(c) ==
    /\ calls[c].pc = "push_definition"
    /\ definitions' = Append(definitions, Definition_new(calls[c].definition.name, c))
    /\ calls' = goto(c, "lock_handles")
    /\ UNCHANGED << handles, definitions_lock, handles_lock, add_idle_vars >>

\* line 77: binding.handles.lock().await
LockHandles(c) ==
    /\ calls[c].pc = "lock_handles"
    /\ lock_available(handles_lock)
    /\ handles_lock' = Some(c)
    /\ calls' = goto(c, "push_handle")
    /\ UNCHANGED << definitions, handles, definitions_lock, add_idle_vars >>

\* lines 78-84: handles.push(ic_handle), reply success; both guards drop.
PushHandle(c) ==
    /\ calls[c].pc = "push_handle"
    /\ handles' = Append(handles, c)
    /\ calls' = return(c, with_status("success", "OK"))
    /\ definitions_lock' = IF definitions_lock = Some(c) THEN None ELSE definitions_lock
    /\ handles_lock' = IF handles_lock = Some(c) THEN None ELSE handles_lock
    /\ UNCHANGED << definitions, add_idle_vars >>

NextAdd ==
    \E c \in Calls :
        \/ ParsePublicKey(c)
        \/ LockDefinitions(c)
        \/ CheckName(c)
        \/ NnsReachable(c)
        \/ PushDefinition(c)
        \/ LockHandles(c)
        \/ PushHandle(c)

SpecAdd == InitAdd /\ [][NextAdd]_vars

\* ------------------------------------------------------------------ claims

RECURSIVE SumAt(_, _)
SumAt(s, indices) ==
    IF indices = {} THEN 0
    ELSE LET i == CHOOSE x \in indices : TRUE
         IN  s[i] + SumAt(s, indices \ {i})

\* The largest total that j of the actors hold together.
TopSum(s, j) ==
    LET sums == { SumAt(s, J) : J \in { K \in SUBSET (1..Len(s)) : Cardinality(K) = j } }
    IN  CHOOSE m \in sums : \A x \in sums : x <= m

AllPositive(s) == \A i \in 1..Len(s) : s[i] > 0

\* The k-th largest count of s.
KthLargest(s, k) ==
    CHOOSE v \in { s[i] : i \in 1..Len(s) } :
        /\ Cardinality({ i \in 1..Len(s) : s[i] > v }) < k
        /\ Cardinality({ i \in 1..Len(s) : s[i] >= v }) >= k

KernelReturned == op = "nakamoto" /\ result # Pending

ScoreReturned == op = "new_from_slice_node_features" /\ score # Pending

\* C1: nakamoto(values) = (k, S) where k is the least number of the largest
\* actors whose counts sum to more than floor(sum(values) / 3) and S is that
\* sum; nakamoto([]) = (0, 0); n actors of one node give 1 + floor(n / 3)
\* twice; and the three literal vectors of the tests give their results.
C1_NakamotoIsLeastTopPrefix ==
    KernelReturned =>
        LET k == result[1][1]
            S == result[1][2]
            threshold == SumSeq(values) \div 3
        IN  /\ values = << >> => result[1] = << 0, 0 >>
            /\ (values # << >> /\ AllPositive(values)) =>
                  /\ k \in 1..Len(values)
                  /\ S = TopSum(values, k)
                  /\ S > threshold
                  /\ \A j \in 0..(k - 1) : TopSum(values, j) <= threshold
            /\ \A n \in 1..MaxOnes :
                  values = Ones(n) => result[1] = << 1 + (n \div 3), 1 + (n \div 3) >>
            /\ values = << 1, 2, 1, 2, 1 >> => result[1] = << 2, 4 >>
            /\ values = << 1, 1, 2, 3, 5, 1 >> => result[1] = << 1, 5 >>
            /\ values = << 1, 1, 2, 3, 5, 1, 2 >> => result[1] = << 2, 8 >>

C1_Witness ==
    /\ KernelReturned
    /\ values = << 1, 1, 2, 3, 5, 1, 2 >>
    /\ result = Some(<< 2, 8 >>)

\* A counter that gives every None an actor of its own: k nodes that lack the
\* feature are k actors of one node each.
counter_unknown_per_node(column) ==
    LET keys == Distinct(column)
        known == SelectSeq(keys, LAMBDA k : k # None)
    IN  [i \in 1..Len(known) |-> Occurrences(column, known[i])]
        \o [i \in 1..Occurrences(column, None) |-> 1]

\* C7: in score construction the nodes that lack a value for a feature are
\* never merged: the kernel input of every feature holds one actor of one
\* node per such node, beside the actors of the known values.
C7_MissingValueIsOneActorPerNode ==
    ScoreReturned =>
        \A f \in Feature :
            LET column == features_to_nodes_map(slice_node_features)[f]
            IN  sort_desc(kernel_inputs[1][f]) = sort_desc(counter_unknown_per_node(column))

\* The index of the actor that got the node.
GrownActor == CHOOSE i \in 1..Len(values) : values2[i] # values[i]

KernelGrown == KernelReturned /\ variant = "grown" /\ AllPositive(values)

\* C8 as stated: one more node for any single actor never increases the
\* coefficient.
C8_AddingNodeNeverIncreasesCoefficient ==
    KernelGrown => result2[1][1] <= result[1][1]

\* C8 amended: one more node for an actor whose count is at least the k-th
\* largest count, k being the coefficient before, never increases the
\* coefficient; one more node for any actor increases it by at most one.
C8_AddingNodeToTopActorNeverIncreasesCoefficient ==
    KernelGrown =>
        /\ values[GrownActor] >= KthLargest(values, result[1][1])
              => result2[1][1] <= result[1][1]
        /\ result2[1][1] <= result[1][1] + 1

C8_Witness ==
    /\ KernelGrown
    /\ values = << 2, 1, 1, 1 >>
    /\ values2 = << 3, 1, 1, 1 >>
    /\ result2[1][1] <= result[1][1]

\* C9: for an input whose total is positive nakamoto returns (coef, nodes)
\* with 1 <= coef <= number of actors, nodes >= coef and nodes > total / 3;
\* and in every score built, controlled_nodes of every feature is at most the
\* number of nodes of the slice.
C9_KernelBounds ==
    /\ (KernelReturned /\ SumSeq(values) > 0) =>
          /\ 1 <= result[1][1]
          /\ result[1][1] <= Len(values)
          /\ result[1][2] >= result[1][1]
          /\ 3 * result[1][2] > SumSeq(values)
    /\ ScoreReturned =>
          \A f \in Feature :
              /\ score[1].controlled_nodes[f] <= Len(slice_node_features)
              /\ score[1].controlled_nodes[f] = nakamoto(kernel_inputs[1][f])[2]
              /\ SumSeq(kernel_inputs[1][f]) > 0 =>
                    /\ 1 <= score[1].coefficients[f]
                    /\ score[1].coefficients[f] <= Len(kernel_inputs[1][f])
                    /\ 3 * score[1].controlled_nodes[f] > SumSeq(kernel_inputs[1][f])

C9_Witness ==
    /\ ScoreReturned
    /\ Len(slice_node_features) = MaxNodes
    /\ \E f, g \in Feature :
          /\ score[1].controlled_nodes[f] = MaxNodes
          /\ score[1].coefficients[g] > 1

\* C10: nakamoto of a permutation of values is nakamoto of values, and the
\* score of a slice does not depend on the order of its nodes.
C10_PermutationInvariance ==
    /\ (KernelReturned /\ variant = "shuffled") => result2 = result
    /\ (ScoreReturned /\ variant = "shuffled") => score2 = score

C10_Witness ==
    /\ KernelReturned
    /\ variant = "shuffled"
    /\ values = << 1, 2, 3 >>
    /\ values2 = << 3, 2, 1 >>
    /\ result2 = Some(<< 1, 3 >>)

Compared == op = "cmp" /\ ordering # Pending

LessOrEqual(o) == o \in { "Less", "Equal" }

\* C2: the order on scores is antisymmetric: a.cmp(b) is Less exactly when
\* b.cmp(a) is Greater, and a.cmp(b) is Equal exactly when b.cmp(a) is Equal.
C2_OrderAntisymmetric ==
    Compared =>
        \A i, j \in 1..3 :
            /\ ordering[1][i][j] = "Less" <=> ordering[1][j][i] = "Greater"
            /\ ordering[1][i][j] = "Equal" <=> ordering[1][j][i] = "Equal"

\* C3: the order is consistent with equality: a.cmp(b) is Equal exactly when
\* a == b (coefficients and controlled_nodes match entry for entry).
C3_OrderConsistentWithEq ==
    Compared =>
        \A i, j \in 1..3 : ordering[1][i][j] = "Equal" <=> equality[1][i][j]

\* C4: the order is transitive: if a.cmp(b) and b.cmp(c) are Less or Equal
\* then a.cmp(c) is Less or Equal.
C4_OrderTransitive ==
    Compared =>
        \A i, j, k \in 1..3 :
            (LessOrEqual(ordering[1][i][j]) /\ LessOrEqual(ordering[1][j][k]))
                => LessOrEqual(ordering[1][i][k])

\* ---- SpecChange: optimize and replace

OptimizeReturned == op = "optimize" /\ change # Pending

ReplaceReturned == op = "replace" /\ change # Pending

PinnedMembers == request.pins \cap Ids(request.subnet)

\* C5: the subnet optimize returns never compares Less than the input subnet
\* under the score order, and when the greedy search ends on a subnet whose
\* score is not Greater than the input's, the change returned is the no-op:
\* after = before, nothing removed, nothing added.
C5_OptimizeNeverWorse ==
    OptimizeReturned =>
        LET c == change[1]
            s0 == new_from_nodes(request.subnet)
        IN  /\ c.ok
            /\ c.before = request.subnet
            /\ cmp(new_from_nodes(c.after), s0) # "Less"
            /\ cmp(new_from_nodes(search.nodes), s0) # "Greater" =>
                   c.after = c.before /\ c.removed = << >> /\ c.added = << >>

\* optimize committed a swap and returned it: the subnet changed.
C5_Witness ==
    /\ OptimizeReturned
    /\ search.removed # << >>
    /\ change[1].after # change[1].before
    /\ cmp(new_from_nodes(change[1].after), new_from_nodes(request.subnet)) = "Greater"

\* C6: a pinned member of the input subnet is a member of the subnet of the
\* search after every greedy step and of the after-subnet of every change
\* returned, by optimize and by replace; a replace that would remove a pinned
\* id returns PinnedAndRemoved.
C6_PinsRespected ==
    /\ op = "optimize" => PinnedMembers \subseteq Ids(search.nodes)
    /\ (OptimizeReturned \/ ReplaceReturned) /\ change[1].ok =>
           PinnedMembers \subseteq Ids(change[1].after)
    /\ ReplaceReturned /\ to_remove(request) \cap request.pins # {} =>
           change[1] = failure("PinnedAndRemoved")

\* optimize with a pinned member returned a change that removes another node.
C6_Witness ==
    /\ OptimizeReturned
    /\ PinnedMembers # {}
    /\ change[1].removed # << >>
    /\ PinnedMembers \subseteq Ids(change[1].after)

\* ---- Spec: the empty slice

\* C11: the score built from the empty slice has coefficient 0 on every
\* feature, min = +infinity, avg_linear = 0 and avg_log2 = 0 (avg_log2 is
\* kept as the product of the coefficients: 0 is the product 1, -infinity the
\* product 0).
C11_EmptySliceScore ==
    ScoreReturned /\ slice_node_features = << >> =>
        /\ \A f \in Feature : score[1].coefficients[f] = 0
        /\ score_min(score[1]) = PosInfinity
        /\ score_avg_linear(score[1]) = 0
        /\ score_avg_log2(score[1]) = 1

\* ---- SpecSubnet: check_business_rules

RulesReturned == op = "check_business_rules" /\ change # Pending

HasDfinityNode(nodes) == \E i \in 1..Len(nodes) : nodes[i].dfinity_owned

UsaDominanceSubnet == new_test_nodes_with_overrides("feat", 0, 13, 1, "country", UsaDominance)

CeilingOfTwoThirds(n) == (2 * n + 2) \div 3

FloorOfTwoThirds(n) == (2 * n) \div 3

\* The super-majority rule with the limit Limit(n): on a subnet with a
\* DFINITY-owned node, FeatureSuperMajority{feature, count, limit} is returned
\* exactly when some value of some feature is held by at least Limit(n)
\* nodes, with the count of such a value and limit = Limit(n); and the 13-node
\* subnet with country US x 9, CH, BE, SG, SI gets {country, 9, 8} and the
\* message of the test.
SuperMajorityRule(Limit(_)) ==
    (RulesReturned /\ HasDfinityNode(request.subnet)) =>
        LET nodes == request.subnet
            v == change[1]
            over == { f \in Feature : max_value_count(nodes, f) >= Limit(Len(nodes)) }
        IN  /\ over # {} <=> (~ v.ok /\ v.error = "FeatureSuperMajority")
            /\ over # {} =>
                  /\ v.feature \in over
                  /\ v.count = max_value_count(nodes, v.feature)
                  /\ v.limit = Limit(Len(nodes))
            /\ nodes = UsaDominanceSubnet =>
                  /\ v = violation("FeatureSuperMajority", "country", 9, 8)
                  /\ to_string(v) =
                        "Feature 'country' controls 9 of nodes, which is >= 8 (2/3 of all) nodes"

\* C12 as stated: the super-majority rule with limit = ceiling(2n/3).
C12_SuperMajorityAtCeiling == SuperMajorityRule(CeilingOfTwoThirds)

\* C12, amended: the super-majority rule with limit = floor(2n/3), the limit
\* 8 that the test reports for 13 nodes.
C12_SuperMajorityAtFloor == SuperMajorityRule(FloorOfTwoThirds)

\* The 13-node subnet of the test was checked and failed the rule.
C12_Witness ==
    /\ RulesReturned
    /\ request.subnet = UsaDominanceSubnet
    /\ change[1].error = "FeatureSuperMajority"

PairwiseDistinct(nodes) ==
    \A f \in Feature : \A i, j \in 1..Len(nodes) :
        i # j => get(nodes[i].features, f) # get(nodes[j].features, f)

\* C13: a subnet without a DFINITY-owned node fails with
\* DfinityOwnedNodeMissing ("DFINITY-owned node missing"), whatever its size
\* (0 and 2 included) and whatever other rule it breaks; a subnet of at least
\* 7 nodes, pairwise distinct on every feature, with a DFINITY-owned node
\* passes every rule.
C13_DfinityPresence ==
    RulesReturned =>
        LET nodes == request.subnet
            v == change[1]
        IN  /\ ~ HasDfinityNode(nodes) =>
                  /\ v = violation("DfinityOwnedNodeMissing", "", 0, 0)
                  /\ to_string(v) = "DFINITY-owned node missing"
            /\ (Len(nodes) >= 7 /\ PairwiseDistinct(nodes) /\ HasDfinityNode(nodes)) =>
                  v = success

\* The empty subnet was checked and failed for the missing DFINITY node.
C13_Witness ==
    /\ RulesReturned
    /\ request.subnet = << >>
    /\ ~ change[1].ok
    /\ change[1].error = "DfinityOwnedNodeMissing"

\* ---- SpecSubnet: the optimize runs of the tests

\* The values of a feature over the nodes, in node order.
FeatureColumn(nodes, feature) == [i \in 1..Len(nodes) |-> get(nodes[i].features, feature)]

SeqToSet(s) == { s[i] : i \in 1..Len(s) }

AllProviders == { Some("NP1"), Some("NP2"), Some("NP3"), Some("NP4"), Some("NP5"),
                  Some("NP6"), Some("NP7") }

\* C14: the 7-node subnet with node_provider NP1, NP2, NP2, NP2, NP3, NP4, NP5
\* fails check_business_rules with SingleNodeProviderCanHalt, and optimize(2)
\* with the spares NP6 and NP7 returns a subnet of 7 nodes with the providers
\* NP1..NP7, one each: two of the NP2 nodes are replaced by the two spares,
\* and score_min is 3.
C14_NodeProviderScenario ==
    /\ (RulesReturned /\ request.subnet = NodeProvidersRequest.subnet) =>
          /\ change[1] = violation("SingleNodeProviderCanHalt", "", 0, 0)
          /\ to_string(change[1]) = "A single Node Provider can halt a subnet"
    /\ (OptimizeReturned /\ request = NodeProvidersRequest) =>
          LET c == change[1]
          IN  /\ c.ok
              /\ Len(c.after) = 7
              /\ SeqToSet(FeatureColumn(c.after, "node_provider")) = AllProviders
              /\ SeqToSet(c.removed) \subseteq { 1, 2, 3 }
              /\ Cardinality(SeqToSet(c.removed)) = 2
              /\ SeqToSet(c.added) = { 7, 8 }
              /\ score_min(new_from_nodes(c.after)) = 3

\* optimize(2) returned on the scenario after two committed swaps.
C14_Witness ==
    /\ OptimizeReturned
    /\ request = NodeProvidersRequest
    /\ Len(search.removed) = 2
    /\ Len(change[1].removed) = 2

ExtendReturned == op = "new_extended_subnet" /\ change # Pending

\* C16: with at least k candidates in the pool, extending a subnet of n nodes
\* by k gives n + k nodes: the first n are the input nodes in their order, the
\* last k are k distinct nodes of the pool; with fewer candidates the result
\* is InsufficientCandidates and no subnet.  The subnet of 12 nodes extended
\* by its one spare is the subnet followed by the spare.
C16_ExtendPreservesPrefix ==
    ExtendReturned =>
        LET n == Len(request.subnet)
            k == request.size
            r == change[1]
        IN  IF Len(request.pool) >= k
            THEN /\ r.ok
                 /\ Len(r.nodes) = n + k
                 /\ SubSeq(r.nodes, 1, n) = request.subnet
                 /\ \A i \in (n + 1)..(n + k) : r.nodes[i] \in SeqToSet(request.pool)
                 /\ Cardinality({ r.nodes[i].id : i \in (n + 1)..(n + k) }) = k
                 /\ (n = 12 /\ k = 1) => r.nodes = request.subnet \o request.pool
            ELSE r = failure("InsufficientCandidates")

\* A subnet was extended by two nodes of its pool.
C16_Witness ==
    /\ ExtendReturned
    /\ request.size = 2
    /\ change[1].ok
    /\ Len(change[1].nodes) = Len(request.subnet) + 2

\* ---- SpecOrder: the per-feature key

\* The positions in Feature::variants() on which a and b differ and one of the
\* two coefficients is below a's linear average.
DecidingFeatures(a, b) ==
    { k \in 1..Len(FeatureVariants) :
        LET f == FeatureVariants[k]
        IN  /\ a.coefficients[f] # b.coefficients[f]
            /\ \/ Len(FeatureVariants) * a.coefficients[f] < a.avg_linear
               \/ Len(FeatureVariants) * b.coefficients[f] < a.avg_linear }

FirstOf(S) == CHOOSE k \in S : \A j \in S : k <= j

TieOnMinAndCount(a, b) ==
    /\ a.min = b.min
    /\ below_average_count(a, a) = below_average_count(b, a)

\* C17: when a and b tie on min and on the below-average count and f is the
\* first feature on which either coefficient is below a's average and the
\* coefficients differ, a.cmp(b) is Greater exactly when a's coefficient on f
\* is the higher one.
C17_HigherCoefficientWins ==
    Compared =>
        \A i, j \in 1..3 :
            LET a == scores[i]
                b == scores[j]
            IN  (TieOnMinAndCount(a, b) /\ DecidingFeatures(a, b) # {}) =>
                    LET f == FeatureVariants[FirstOf(DecidingFeatures(a, b))]
                    IN  ordering[1][i][j] = "Greater"
                            <=> a.coefficients[f] > b.coefficients[f]

\* ---- SpecOverflow

SaturatedTotal(s) == IF SumSeq(s) > UsizeMax THEN UsizeMax ELSE SumSeq(s)

\* C18: on counts of any magnitude within the word, nakamoto does not fail
\* on overflow, the total it computes has not wrapped around, and the nodes
\* it returns exceed a third of the total (of the saturated total, when the
\* sum leaves the word).
C18_KernelNeverOverflows ==
    op = "nakamoto" =>
        /\ variant # "panicked"
        /\ (result # Pending /\ values # << >>) =>
              /\ usize_sum(values) = SumSeq(values)
              /\ result[1][2] > SaturatedTotal(values) \div 3

\* ---- SpecAdd

\* how many definitions / thread handles of the shared lists a call put there
DefinitionsBy(c) == Cardinality({ i \in 1..Len(definitions) : definitions[i].by = c })

HandlesBy(c) == Cardinality({ i \in 1..Len(handles) : handles[i] = c })

Replied(c, status) == calls[c].reply # None /\ calls[c].reply[1].status = status

NameTaken(c) ==
    /\ Replied(c, "BAD_REQUEST")
    /\ calls[c].reply[1].body = "Definition with this name already exists"

BetweenCheckAndPush(c) == calls[c].pc \in { "check_name", "nns_reachable", "push_definition" }

\* C19: whatever the interleaving of the add_definition calls, no two
\* definitions of the shared list have the same name; a call is between its
\* name check and its push only while it holds the definitions lock; a call
\* that replied BAD_REQUEST put nothing in definitions or handles (and one
\* refused for its name finds that name in the list); a call that replied
\* success put exactly one definition, of its name, and exactly one handle.
C19_NoDuplicateNames ==
    op = "add_definition" =>
        /\ \A i, j \in 1..Len(definitions) :
              i # j => definitions[i].name # definitions[j].name
        /\ \A c \in Calls :
              /\ BetweenCheckAndPush(c) => definitions_lock = Some(c)
              /\ Replied(c, "BAD_REQUEST") => DefinitionsBy(c) = 0 /\ HandlesBy(c) = 0
              /\ NameTaken(c) => name_exists(definitions, calls[c].definition.name)
              /\ Replied(c, "OK") =>
                    /\ DefinitionsBy(c) = 1
                    /\ HandlesBy(c) = 1
                    /\ \E i \in 1..Len(definitions) :
                          definitions[i] = Definition_new(calls[c].definition.name, c)

\* two calls with the same new name have both returned: one added it, the
\* other was refused for the name.
C19_Witness ==
    /\ op = "add_definition"
    /\ \E c1, c2 \in Calls :
          /\ c1 # c2
          /\ calls[c1].definition.name = calls[c2].definition.name
          /\ Replied(c1, "OK")
          /\ NameTaken(c2)
          /\ DefinitionsBy(c1) = 1

====
